---------------------------- MODULE Spec2Model ----------------------------
(***************************************************************************)
(* CodeForge: the session lifecycle of one challenge (start, think, hint,  *)
(* submit, compare, review, reset) and the scoring functions of review.py. *)
(*                                                                         *)
(* Every handler touches only the files of the challenge it is given, so   *)
(* the lifecycle is modelled for one catalog challenge "ch".  Optional     *)
(* values are sequences of length at most one: <<>> is None, <<v>> is v.   *)
(* Text is modelled by what the handlers test: a diff is the set of kinds  *)
(* of change it lists (the empty set is the empty string).                 *)
(***************************************************************************)
EXTENDS Integers, Sequences, FiniteSets, TLC

\* ------------------------------------------------------------------ bounds
\* len(challenge.hints) of the modelled challenge.
MaxHints == 2
\* The wall clock is cut off here (datetime.now() never decreases).
MaxClock == 1
\* Integer inputs of the scoring functions range over -MaxScoreInput..MaxScoreInput.
MaxScoreInput == 13
\* Hint counts handed to the hint penalty range over 0..MaxPenaltyHints.
MaxPenaltyHints == 20
\* len(stats) of a collection handed to calculate_level is at most MaxEntries,
\* of which at most MaxReviewed entries carry a review and at most
\* MaxHardPending are hard challenges submitted and not reviewed.
MaxEntries == 18
MaxReviewed == 3
MaxHardPending == 1
\* The Reviewed records of a collection a review is stored in.
MaxUpReviewed == 2

VARIABLES
    disk,       \* session.json of the challenge: absent, corrupt or a saved record
    repo,       \* the working tree of workspace/repo: the kinds of change present
    journal,    \* whether journal.md passes validate_journal
    artifact,   \* submission/user.diff: <<>> when absent, <<diff>> otherwise
    bundle,     \* submission/review_export.md exists
    now,        \* the wall clock
    pc,         \* where the running command is; "idle" between commands
    mem,        \* the Session object the running submit holds in memory
    test_command, \* challenge.setup.test_command is non-empty
    calc        \* the scoring functions applied to drawn inputs (ScoreSpec)

vars == <<disk, repo, journal, artifact, bundle, now, pc, mem, test_command, calc>>

\* ------------------------------------------------------------ data model
None == <<>>
Some(v) == <<v>>

\* models.py SessionStatus values.
NOT_STARTED == "not_started"
IN_PROGRESS == "in_progress"
SUBMITTED == "submitted"
REVIEWED == "reviewed"

\* Session(challenge_id=...): the dataclass defaults.
Session(challenge_id) ==
    [ challenge_id  |-> challenge_id,
      status        |-> NOT_STARTED,
      start_time    |-> None,
      end_time      |-> None,
      hints_used    |-> <<>>,
      test_passed   |-> None,
      test_output   |-> "",
      user_diff     |-> {},
      solution_diff |-> "",
      review        |-> None,
      retro         |-> None ]

\* Mutant: the status is set and the start time left unset.
start_unstamped(s, t) == [s EXCEPT !.status = IN_PROGRESS]

\* Session.start with datetime.now() = t.
start(s, t) == [s EXCEPT !.status = IN_PROGRESS, !.start_time = Some(t)]

\* Session.submit with datetime.now() = t.
submit(s, t) == [s EXCEPT !.status = SUBMITTED, !.end_time = Some(t)]

\* ReviewScore(...)
ReviewScore(c, a, q, e, t, f) ==
    [ correctness |-> c, approach |-> a, code_quality |-> q,
      edge_cases |-> e, thinking_quality |-> t, feedback |-> f ]

\* ReviewScore.average = sum(scores) / 5, in tenths (a sum over 5 has one decimal).
average(r) ==
    ((r.correctness + r.approach + r.code_quality + r.edge_cases
        + r.thinking_quality) * 10) \div 5

\* Session.save: the JSON object written, field by field.
to_json(s) ==
    [ challenge_id  |-> s.challenge_id,
      status        |-> s.status,
      start_time    |-> s.start_time,
      end_time      |-> s.end_time,
      hints_used    |-> s.hints_used,
      test_passed   |-> s.test_passed,
      test_output   |-> s.test_output,
      user_diff     |-> s.user_diff,
      solution_diff |-> s.solution_diff,
      review        |-> IF s.review # None THEN s.review ELSE None,
      retro         |-> s.retro ]

\* Mutant: test_passed is read with "or None", which takes false for unset.
load_falsy(d) ==
    [ challenge_id  |-> d.challenge_id,
      status        |-> d.status,
      start_time    |-> d.start_time,
      end_time      |-> d.end_time,
      hints_used    |-> d.hints_used,
      test_passed   |-> IF d.test_passed = Some(FALSE) THEN None ELSE d.test_passed,
      test_output   |-> d.test_output,
      user_diff     |-> d.user_diff,
      solution_diff |-> d.solution_diff,
      review        |-> IF d.review # None THEN d.review ELSE None,
      retro         |-> d.retro ]

\* Session.load of a well-formed JSON object.
load(d) ==
    [ challenge_id  |-> d.challenge_id,
      status        |-> d.status,
      start_time    |-> d.start_time,
      end_time      |-> d.end_time,
      hints_used    |-> d.hints_used,
      test_passed   |-> d.test_passed,
      test_output   |-> d.test_output,
      user_diff     |-> d.user_diff,
      solution_diff |-> d.solution_diff,
      review        |-> IF d.review # None THEN d.review ELSE None,
      retro         |-> d.retro ]

\* The three things session.json can be.
Absent == [kind |-> "absent", data |-> to_json(Session("ch"))]
Corrupt == [kind |-> "corrupt", data |-> to_json(Session("ch"))]
Written(s) == [kind |-> "ok", data |-> to_json(s)]

\* path.write_text(json.dumps(data)) opens the file, which empties it, and then
\* writes: cut short between the two (torn) it leaves a file json.loads rejects.
save(s, torn) == IF torn THEN Corrupt ELSE Written(s)

\* sf.exists()
exists == disk.kind # "absent"
\* Session.load(sf) returns a Session (it raises on a corrupt file).
loads == disk.kind = "ok"
loaded == load(disk.data)


\* ------------------------------------------------- review.py: scoring
\* A JSON value of the oracle's reply, as json.loads returns it: an int, a
\* finite float (v tenths), a string spelling the integer v ("digits"), any
\* other string ("text"), null, true/false (v is 1/0), a list, an object, and
\* the floats NaN and Infinity, which json.loads accepts.
JInt(n) == [tag |-> "int", v |-> n]
JFloat(tenths) == [tag |-> "float", v |-> tenths]
JDigits(n) == [tag |-> "digits", v |-> n]
JBool(b) == [tag |-> "bool", v |-> IF b THEN 1 ELSE 0]
JText == [tag |-> "text", v |-> 0]
JNull == [tag |-> "null", v |-> 0]
JList == [tag |-> "list", v |-> 0]
JObject == [tag |-> "object", v |-> 0]
JNaN == [tag |-> "nan", v |-> 0]
JInfinity == [tag |-> "inf", v |-> 0]

Max(a, b) == IF a >= b THEN a ELSE b
Min(a, b) == IF a <= b THEN a ELSE b
\* Python's int() of a quotient: truncation toward zero.
TruncDiv(a, b) == IF a >= 0 THEN a \div b ELSE -((-a) \div b)

\* Python's int(value): the integer, or the exception it raises.
int(value) ==
    CASE value.tag \in {"int", "bool", "digits"} -> [exc |-> "", v |-> value.v]
      [] value.tag = "float" -> [exc |-> "", v |-> TruncDiv(value.v, 10)]
      [] value.tag \in {"text", "nan"} -> [exc |-> "ValueError", v |-> 0]
      [] value.tag = "inf" -> [exc |-> "OverflowError", v |-> 0]
      [] OTHER -> [exc |-> "TypeError", v |-> 0]

\* _clamp's keyword defaults and its except branch.
min_val == 1
max_val == 10
clamp_default == 5
\* data.get(<score field>, 0)
missing_default == 0

\* _clamp lets any exception but TypeError and ValueError through.
clamp_raises(value) == int(value).exc \notin {"", "TypeError", "ValueError"}

\* Mutant: a value outside the range falls back to the midpoint.
clamp_midpoint(value) ==
    IF int(value).exc \in {"TypeError", "ValueError"}
    THEN clamp_default
    ELSE IF int(value).v < min_val \/ int(value).v > max_val
         THEN clamp_default
         ELSE int(value).v

\* Mutant: the upper bound is not applied.
clamp_no_upper(value) ==
    IF int(value).exc \in {"TypeError", "ValueError"}
    THEN clamp_default
    ELSE Max(min_val, int(value).v)

\* Mutant: no lower bound is applied.
clamp_no_lower(value) ==
    IF int(value).exc \in {"TypeError", "ValueError"}
    THEN clamp_default
    ELSE Min(max_val, int(value).v)

\* _clamp(value), where it returns.
clamp(value) ==
    IF int(value).exc \in {"TypeError", "ValueError"}
    THEN clamp_default
    ELSE Max(min_val, Min(max_val, int(value).v))

ScoreFields ==
    {"correctness", "approach", "code_quality", "edge_cases", "thinking_quality"}

\* data.get(key, 0) on the decoded object.
get(data, key) ==
    IF key \in DOMAIN data.scores THEN data.scores[key] ELSE JInt(missing_default)

\* _parse_review_json(text).  The text is the sequence of its brace-delimited
\* blocks {[^{}]*}; re.search takes the first, json.loads decodes it or fails.
\* Returns [raised, score]: score is None or Some(ReviewScore); raised is an
\* exception that the except clause (JSONDecodeError, KeyError) does not catch.
parse_review_json(text) ==
    IF text = <<>>
    THEN [raised |-> FALSE, score |-> None]
    ELSE LET data == Head(text) IN
         IF ~data.wellformed
         THEN [raised |-> FALSE, score |-> None]
         ELSE IF \E k \in ScoreFields : clamp_raises(get(data, k))
         THEN [raised |-> TRUE, score |-> None]
         ELSE [raised |-> FALSE,
               score |-> Some(ReviewScore(
                   clamp(get(data, "correctness")),
                   clamp(get(data, "approach")),
                   clamp(get(data, "code_quality")),
                   clamp(get(data, "edge_cases")),
                   clamp(get(data, "thinking_quality")),
                   data.feedback))]

\* Mutant: a whole point is taken per hint.
penalized_whole(x, n) == Max(1, x - n)

\* int(x - penalty) with penalty = len(hints_used) * 0.5, computed in halves.
penalized(x, n) == Max(1, TruncDiv(2 * x - n, 2))

\* Mutant: code_quality is penalised like the other dimensions.
apply_hint_penalty_all(score, session) ==
    IF session.hints_used = <<>>
    THEN score
    ELSE LET n == Len(session.hints_used) IN
         ReviewScore(
             penalized(score.correctness, n),
             penalized(score.approach, n),
             penalized(score.code_quality, n),
             penalized(score.edge_cases, n),
             penalized(score.thinking_quality, n),
             score.feedback)

\* _apply_hint_penalty(score, session, challenge)
apply_hint_penalty(score, session) ==
    IF session.hints_used = <<>>
    THEN score
    ELSE LET n == Len(session.hints_used) IN
         ReviewScore(
             penalized(score.correctness, n),
             penalized(score.approach, n),
             score.code_quality,
             penalized(score.edge_cases, n),
             penalized(score.thinking_quality, n),
             score.feedback)

\* A decoded block with the five scores given in the order of ReviewScore.
Block(c, a, q, e, t) ==
    [ wellformed |-> TRUE,
      scores |-> [k \in ScoreFields |->
                    CASE k = "correctness" -> c
                      [] k = "approach" -> a
                      [] k = "code_quality" -> q
                      [] k = "edge_cases" -> e
                      [] OTHER -> t],
      feedback |-> "feedback" ]

\* The block with one field left out.
Without(data, key) ==
    [data EXCEPT !.scores = [k \in (DOMAIN data.scores) \ {key} |-> data.scores[k]]]

\* The block with one field set.
With(data, key, value) == [data EXCEPT !.scores[key] = value]

Malformed == [wellformed |-> FALSE, scores |-> <<>>, feedback |-> ""]

\* The block {}: an object with no field; data.get("feedback", "") is "".
EmptyObject == [wellformed |-> TRUE, scores |-> <<>>, feedback |-> ""]


\* ------------------------------------ the scoring functions on drawn inputs
\* The values a score field of the reply is drawn from.
ScoreValues ==
    {JInt(n) : n \in (-MaxScoreInput)..MaxScoreInput}
        \cup {JInt(100), JInt(-100)}
        \cup {JFloat(t) : t \in {-15, -5, 5, 79, 100, 109, 115}}
        \cup {JDigits(n) : n \in {-3, 0, 8, 11}}
        \cup {JBool(TRUE), JBool(FALSE), JText, JNull, JList, JObject,
              JNaN, JInfinity}

\* The replies the other four fields are taken from.
BaseBlocks ==
    { Block(JInt(8), JInt(7), JInt(9), JInt(6), JInt(8)),
      Block(JInt(1), JInt(10), JInt(2), JInt(3), JInt(5)) }

\* A session that used the first n hints.
SessionWithHints(n) == [Session("ch") EXCEPT !.hints_used = [i \in 1..n |-> i - 1]]

NoCalc ==
    [ stage |-> "none", value |-> JNull, field |-> "correctness", missing |-> FALSE,
      text |-> <<>>, n |-> 0, raised |-> FALSE, clamped |-> 0, twice |-> 0,
      parsed |-> [raised |-> FALSE, score |-> None], final |-> None ]

\* Every reply made of a base block with one field set to a drawn value or
\* left out, and every hint count up to the bound.
Drawn ==
    { [NoCalc EXCEPT !.stage = "drawn", !.value = x, !.field = k, !.missing = m,
                     !.text = <<IF m THEN Without(b, k) ELSE With(b, k, x)>>,
                     !.n = n] :
        x \in ScoreValues, k \in ScoreFields, m \in BOOLEAN, b \in BaseBlocks,
        n \in 0..MaxPenaltyHints }

\* _clamp(value), then _clamp of what it returned.
calc_clamp ==
    /\ calc.stage = "drawn"
    /\ calc' = IF clamp_raises(calc.value)
               THEN [calc EXCEPT !.stage = "clamped", !.raised = TRUE]
               ELSE [calc EXCEPT !.stage = "clamped",
                                 !.clamped = clamp(calc.value),
                                 !.twice = clamp(JInt(clamp(calc.value)))]
    /\ UNCHANGED <<disk, repo, journal, artifact, bundle, now, pc, mem, test_command>>

\* _parse_review_json(text)
calc_parse ==
    /\ calc.stage = "clamped"
    /\ calc' = [calc EXCEPT !.stage = "parsed", !.parsed = parse_review_json(calc.text)]
    /\ UNCHANGED <<disk, repo, journal, artifact, bundle, now, pc, mem, test_command>>

\* _apply_hint_penalty(score, session, challenge) on the parsed score.
calc_penalty ==
    /\ calc.stage = "parsed"
    /\ calc.parsed.score # None
    /\ calc' = [calc EXCEPT !.stage = "penalized",
                   !.final = Some(apply_hint_penalty(calc.parsed.score[1],
                                                     SessionWithHints(calc.n)))]
    /\ UNCHANGED <<disk, repo, journal, artifact, bundle, now, pc, mem, test_command>>

ScoreInit ==
    /\ calc \in Drawn
    /\ disk = Absent
    /\ repo = {}
    /\ journal = FALSE
    /\ artifact = None
    /\ bundle = FALSE
    /\ now = 0
    /\ pc = "idle"
    /\ mem = Session("ch")
    /\ test_command = FALSE

ScoreNext == calc_clamp \/ calc_parse \/ calc_penalty

ScoreSpec == ScoreInit /\ [][ScoreNext]_vars


\* ------------------------------------------------------ stats.py: the level
\* LEVELS, without the titles and icons.
LEVELS ==
    << [level |-> 1, min_completed |-> 1,  min_avg_score |-> 0, min_hard |-> 0],
       [level |-> 2, min_completed |-> 5,  min_avg_score |-> 5, min_hard |-> 0],
       [level |-> 3, min_completed |-> 10, min_avg_score |-> 6, min_hard |-> 0],
       [level |-> 4, min_completed |-> 15, min_avg_score |-> 7, min_hard |-> 1],
       [level |-> 5, min_completed |-> 18, min_avg_score |-> 8, min_hard |-> 3] >>

\* Python floats are IEEE-754 doubles.  Every double met here is a multiple of
\* 2^-52 close to a number of fifths, and is kept as the pair <<K, D>> of small
\* integers that stands for (K*M + D) / 2^52 with M = (2^52 - 1) / 5: K fifths,
\* off by (5*D - K) / (5 * 2^52).  M ends in the bits 00110011, so K*M modulo a
\* power of two q <= 256 is (K * 51) modulo q.
KM(K, q) == ((K % q) * (51 % q)) % q

\* (5*K*M + N) / (5 * 2^52) >= 2^j
AtLeast(K, N, j) == K > 5 * 2^j \/ (K = 5 * 2^j /\ N >= K)

\* The exponent e with 2^e <= (5*K*M + N) / (5 * 2^52) < 2^(e+1).
binade(K, N) == CHOOSE e \in 0..7 : AtLeast(K, N, e) /\ ~AtLeast(K, N, e + 1)

\* Rounding to nearest, ties to even: the D of the double nearest to
\* (K*M + N/5) / 2^52.  A double in [2^e, 2^(e+1)) is a multiple of 2^(e-52).
round(K, N) ==
    LET q == 2^binade(K, N)
        km == KM(K, 2 * q)
        floor == N \div 5
        d_lo == floor - ((km + floor) % q)
        d_hi == d_lo + q
    IN  IF 5 * d_lo = N THEN d_lo
        ELSE IF 2 * N < 5 * (d_lo + d_hi) THEN d_lo
        ELSE IF 2 * N > 5 * (d_lo + d_hi) THEN d_hi
        ELSE IF (km + d_lo) % (2 * q) = 0 THEN d_lo ELSE d_hi

\* ReviewScore.average as the float it is: sum(scores) / len(scores) for five
\* scores of sum total.
average_score(total) == <<total, round(total, total)>>

\* x + y of two floats.
float_add(x, y) == <<x[1] + y[1], round(x[1] + y[1], 5 * (x[2] + y[2]))>>

\* The numerators and the offsets of a list of floats, added exactly.
RECURSIVE exact_sum(_)
exact_sum(xs) ==
    IF xs = <<>> THEN <<0, 0>>
    ELSE <<Head(xs)[1] + exact_sum(Tail(xs))[1], Head(xs)[2] + exact_sum(Tail(xs))[2]>>

\* sum(xs) before Python 3.12: the floats are added one after the other, each
\* addition rounded.
RECURSIVE naive_sum(_)
naive_sum(xs) ==
    IF Len(xs) = 1 THEN xs[1]
    ELSE float_add(naive_sum(SubSeq(xs, 1, Len(xs) - 1)), xs[Len(xs)])

\* sum(xs) of a non-empty list of floats.  From Python 3.12 on sum() carries
\* the rounding errors along (Neumaier) and adds them at the end: the exact
\* sum of the floats, rounded once.
sum(xs, compensated) ==
    IF compensated
    THEN <<exact_sum(xs)[1], round(exact_sum(xs)[1], 5 * exact_sum(xs)[2])>>
    ELSE naive_sum(xs)

\* A stats collection.  calculate_level reads of an entry without
\* "average_score" only that it is there, so these entries are kept as a count
\* per difficulty (pending) and the entries with a review as the list of their
\* difficulty and of the sum of their five scores, in catalog order.
Difficulties == {"easy", "hard"}
NoStats == [pending |-> [d \in Difficulties |-> 0], reviewed |-> <<>>]

\* len(stats)
len(stats) == stats.pending["easy"] + stats.pending["hard"] + Len(stats.reviewed)

\* hard_completed = sum(1 for s in reviewed if s["difficulty"] == "hard")
hard_completed(stats) ==
    Cardinality({i \in 1..Len(stats.reviewed) : stats.reviewed[i].difficulty = "hard"})

\* avg_score >= min_avg_score, where avg_score is sum(...) / len(reviewed), or
\* 0 without reviewed entry.  The quotient of the float s by n, rounded, is at
\* least the integer t exactly when s >= n * t.
avg_score_at_least(stats, compensated, t) ==
    LET n == Len(stats.reviewed)
        s == sum([i \in 1..n |-> average_score(stats.reviewed[i].total)], compensated)
    IN  IF n = 0 THEN 0 >= t
        ELSE s[1] > 5 * n * t \/ (s[1] = 5 * n * t /\ 5 * s[2] >= s[1])

\* The test of calculate_level's loop for one level.
meets(stats, compensated, level) ==
    /\ len(stats) >= level.min_completed
    /\ avg_score_at_least(stats, compensated, level.min_avg_score)
    /\ hard_completed(stats) >= level.min_hard

\* calculate_level(stats): the loop goes up the levels and breaks at the first
\* whose test fails; current_level starts as LEVELS[0].
calculate_level(stats, compensated) ==
    LET passed == {k \in 1..Len(LEVELS) :
                     \A j \in 1..k : meets(stats, compensated, LEVELS[j])}
    IN  IF passed = {} THEN LEVELS[1]
        ELSE LEVELS[CHOOSE k \in passed : \A j \in passed : j <= k]

\* --------------------------------------- calculate_level on drawn collections
\* The reviewed entries a collection is made of: averages 1.2, 5.4, 5.6 and 8.2.
ReviewedEntries ==
    { [difficulty |-> "easy", total |-> 6],
      [difficulty |-> "easy", total |-> 27],
      [difficulty |-> "easy", total |-> 28],
      [difficulty |-> "easy", total |-> 41],
      [difficulty |-> "hard", total |-> 41] }

NoLevel ==
    [ stage |-> "collecting", compensated |-> FALSE, stats |-> NoStats,
      hard_completed |-> 0, level |-> LEVELS[1],
      new_stats |-> NoStats, level_up |-> None ]

\* collect_stats appends the entry of a Submitted record.
collect_submitted(difficulty) ==
    /\ calc.stage = "collecting"
    /\ len(calc.stats) < MaxEntries
    /\ difficulty = "hard" => calc.stats.pending["hard"] < MaxHardPending
    /\ calc' = [calc EXCEPT !.stats.pending[difficulty] = @ + 1]
    /\ UNCHANGED <<disk, repo, journal, artifact, bundle, now, pc, mem, test_command>>

\* collect_stats appends the entry of a Reviewed record.
collect_reviewed(entry) ==
    /\ calc.stage = "collecting"
    /\ len(calc.stats) < MaxEntries
    /\ Len(calc.stats.reviewed) < MaxReviewed
    /\ calc' = [calc EXCEPT !.stats.reviewed = Append(@, entry)]
    /\ UNCHANGED <<disk, repo, journal, artifact, bundle, now, pc, mem, test_command>>

\* calculate_level(stats)
calc_level ==
    /\ calc.stage = "collecting"
    /\ calc' = [calc EXCEPT !.stage = "levelled",
                   !.hard_completed = hard_completed(calc.stats),
                   !.level = calculate_level(calc.stats, calc.compensated)]
    /\ UNCHANGED <<disk, repo, journal, artifact, bundle, now, pc, mem, test_command>>

\* The score sums a review can store for the record under review.
ReviewTotals == {6, 28, 41}

\* Mutant: a level that did not go down counts as a level-up.
check_level_up_not_lower(old_stats, new_stats, compensated) ==
    LET old_level == calculate_level(old_stats, compensated)
        new_level == calculate_level(new_stats, compensated)
    IN  IF new_level.level >= old_level.level THEN Some(new_level) ELSE None

\* check_level_up(old_stats, new_stats): the new level if its number is
\* greater than the old level's, None otherwise.
check_level_up(old_stats, new_stats, compensated) ==
    LET old_level == calculate_level(old_stats, compensated)
        new_level == calculate_level(new_stats, compensated)
    IN  IF new_level["level"] > old_level["level"] THEN Some(new_level) ELSE None

\* The collection once the Submitted record of the given difficulty is saved
\* as Reviewed: its entry now carries the review, at its place in the catalog.
first_reviewed(stats, difficulty, total, place) ==
    [ pending  |-> [stats.pending EXCEPT ![difficulty] = @ - 1],
      reviewed |-> SubSeq(stats.reviewed, 1, place - 1)
                   \o << [difficulty |-> difficulty, total |-> total] >>
                   \o SubSeq(stats.reviewed, place, Len(stats.reviewed)) ]

\* The collection once a Reviewed record is saved with another review.
reviewed_again(stats, place, total) ==
    [stats EXCEPT !.reviewed[place].total = total]

\* review_challenge, from "Collect stats before this review" on, for a
\* Submitted record: old_stats is collected, the record is saved as Reviewed,
\* new_stats is collected and check_level_up compares the two.
level_up_first_review(difficulty, total, place) ==
    /\ calc.stage = "collecting"
    /\ calc.stats.pending[difficulty] > 0
    /\ place \in 1..(Len(calc.stats.reviewed) + 1)
    /\ LET new_stats == first_reviewed(calc.stats, difficulty, total, place)
       IN  calc' = [calc EXCEPT !.stage = "reviewed",
                       !.new_stats = new_stats,
                       !.level_up = check_level_up(calc.stats, new_stats,
                                                   calc.compensated)]
    /\ UNCHANGED <<disk, repo, journal, artifact, bundle, now, pc, mem, test_command>>

\* The same for a record that was Reviewed already.
level_up_review_again(place, total) ==
    /\ calc.stage = "collecting"
    /\ place \in 1..Len(calc.stats.reviewed)
    /\ LET new_stats == reviewed_again(calc.stats, place, total)
       IN  calc' = [calc EXCEPT !.stage = "reviewed",
                       !.new_stats = new_stats,
                       !.level_up = check_level_up(calc.stats, new_stats,
                                                   calc.compensated)]
    /\ UNCHANGED <<disk, repo, journal, artifact, bundle, now, pc, mem, test_command>>

LevelInit ==
    /\ \E compensated \in BOOLEAN : calc = [NoLevel EXCEPT !.compensated = compensated]
    /\ disk = Absent
    /\ repo = {}
    /\ journal = FALSE
    /\ artifact = None
    /\ bundle = FALSE
    /\ now = 0
    /\ pc = "idle"
    /\ mem = Session("ch")
    /\ test_command = FALSE

LevelNext ==
    \/ \E difficulty \in Difficulties : collect_submitted(difficulty)
    \/ \E entry \in ReviewedEntries : collect_reviewed(entry)
    \/ calc_level

LevelSpec == LevelInit /\ [][LevelNext]_vars

\* ------------------------------------------ check_level_up on drawn collections
\* The collections a review is stored in: some Submitted records and up to
\* MaxUpReviewed Reviewed ones, in catalog order.
PendingCounts == {0, 4, 9, 14, 15}

UpEntries ==
    { [difficulty |-> "easy", total |-> 6],
      [difficulty |-> "easy", total |-> 41],
      [difficulty |-> "hard", total |-> 41] }

UpReviewed ==
    UNION { [1..n -> UpEntries] : n \in 0..MaxUpReviewed }

LevelUpInit ==
    /\ \E compensated \in BOOLEAN, easy \in PendingCounts,
          hard \in 0..MaxHardPending, entries \in UpReviewed :
            calc = [NoLevel EXCEPT !.compensated = compensated,
                       !.stats = [ pending  |-> [d \in Difficulties |->
                                                  IF d = "easy" THEN easy ELSE hard],
                                   reviewed |-> entries ]]
    /\ disk = Absent
    /\ repo = {}
    /\ journal = FALSE
    /\ artifact = None
    /\ bundle = FALSE
    /\ now = 0
    /\ pc = "idle"
    /\ mem = Session("ch")
    /\ test_command = FALSE

LevelUpNext ==
    \/ \E difficulty \in Difficulties, total \in ReviewTotals,
          place \in 1..(MaxUpReviewed + 1) :
            level_up_first_review(difficulty, total, place)
    \/ \E place \in 1..MaxUpReviewed, total \in ReviewTotals :
            level_up_review_again(place, total)

LevelUpSpec == LevelUpInit /\ [][LevelUpNext]_vars

\* ---------------------------------------------------- the session lifecycle
\* The kinds of change a working tree can hold: a tracked file modified
\* (staged or not), a new file git does not track.
Kinds == {"modified", "untracked"}

\* git_ops.has_changes: git status --porcelain prints something.
has_changes(tree) == tree # {}

\* git_ops.get_all_changes: the output of git diff HEAD, which lists the changes
\* of tracked files (staged or not) and no untracked file.
get_all_changes(tree) == tree \cap {"modified"}

\* What the test command can do: exit 0 or not, printing something or nothing,
\* run past the timeout, or fail to run.
TestOutcomes ==
    { [how |-> "exit", rc |-> 0, output |-> "test output"],
      [how |-> "exit", rc |-> 1, output |-> "test output"],
      [how |-> "exit", rc |-> 1, output |-> ""],
      [how |-> "timeout", rc |-> 0, output |-> ""],
      [how |-> "oserror", rc |-> 0, output |-> ""] }

\* Mutant: a timeout is recorded with no message.
run_tests_silent(outcome) ==
    [ passed |-> outcome.how = "exit" /\ outcome.rc = 0,
      output |-> IF outcome.how = "oserror" THEN "test run failed"
                 ELSE outcome.output ]

\* submission._run_tests: (passed, output).
run_tests(outcome) ==
    CASE outcome.how = "exit" -> [passed |-> outcome.rc = 0, output |-> outcome.output]
      [] outcome.how = "timeout" -> [passed |-> FALSE, output |-> "test timeout (120s)"]
      [] OTHER -> [passed |-> FALSE, output |-> "test run failed"]

\* What the oracle call can come to: a transport error, a provider that is
\* none of the three supported, or a reply text.
ErrorReply == [kind |-> "error", text |-> <<>>]
UnsupportedProvider == [kind |-> "unsupported", text |-> <<>>]
Reply(text) == [kind |-> "text", text |-> text]
C8Block == Block(JInt(8), JInt(7), JInt(9), JInt(6), JInt(8))
OracleReplies ==
    { ErrorReply,
      UnsupportedProvider,
      Reply(<<>>),
      Reply(<<EmptyObject>>),
      Reply(<<Malformed, C8Block>>),
      Reply(<<C8Block>>),
      Reply(<<Block(JInt(0), JInt(11), JInt(5), JInt(-3), JText)>>),
      Reply(<<With(C8Block, "approach", JInfinity)>>) }

\* Mutant: a reply that gives no score is scored with the midpoint.
api_review_defaulting(reply) ==
    IF reply.kind = "text" /\ ~parse_review_json(reply.text).raised
                           /\ parse_review_json(reply.text).score # None
    THEN parse_review_json(reply.text).score
    ELSE Some(ReviewScore(5, 5, 5, 5, 5, ""))

\* review._api_review: the provider call returns what _parse_review_json
\* returns; an unsupported provider gives None, and whatever is raised on the
\* way is caught and gives None.
api_review(reply) ==
    IF reply.kind # "text"
    THEN None
    ELSE IF parse_review_json(reply.text).raised
         THEN None
         ELSE parse_review_json(reply.text).score

\* The scores typed at the prompts of forge review --score.
ManualScores == { <<5, 5, 5, 5, 5>>, <<0, 11, 3, 100, 7>> }

\* Mutant: a restart keeps the fields of the record it finds.
initial_session_kept(t) == start(IF loads THEN loaded ELSE Session("ch"), t)

\* Mutant: the session is saved as constructed, without start().
initial_session_unstarted(t) == Session("ch")

\* setup_workspace's "Initialize session": Session(challenge_id=...).start()
initial_session(t) == start(Session("ch"), t)

\* What each command prints when it stops before doing its work ("" when it
\* goes on); "error" is the exception Session.load raises on a corrupt file,
\* which cli._error_handler reports.
\* Mutant: a record that does not load is taken for no record.
start_rejection_defaulting ==
    IF exists /\ loads /\ loaded.status = IN_PROGRESS THEN "already in progress"
    ELSE ""

\* Mutant: a session in progress is set up again.
start_rejection_never ==
    IF exists /\ ~loads THEN "error"
    ELSE ""

start_rejection ==
    IF exists /\ ~loads THEN "error"
    ELSE IF exists /\ loaded.status = IN_PROGRESS THEN "already in progress"
    ELSE ""

hint_rejection ==
    IF ~exists THEN "no session"
    ELSE IF ~loads THEN "error"
    ELSE IF loaded.status # IN_PROGRESS THEN "not in progress"
    ELSE IF MaxHints = 0 THEN "no hints"
    ELSE IF Len(loaded.hints_used) >= MaxHints THEN "no hints remaining"
    ELSE ""

\* Mutant: the working tree is looked at before the journal.
submit_rejection_changes_first ==
    IF ~exists THEN "no session"
    ELSE IF ~loads THEN "error"
    ELSE IF loaded.status = SUBMITTED THEN "already submitted"
    ELSE IF loaded.status = REVIEWED THEN "already reviewed"
    ELSE IF loaded.status # IN_PROGRESS THEN "not started"
    ELSE IF ~has_changes(repo) THEN "no changes"
    ELSE IF ~journal THEN "journal invalid"
    ELSE ""

\* Mutant: the journal is validated before the status is looked at.
submit_rejection_journal_first ==
    IF ~exists THEN "no session"
    ELSE IF ~loads THEN "error"
    ELSE IF ~journal THEN "journal invalid"
    ELSE IF loaded.status = SUBMITTED THEN "already submitted"
    ELSE IF loaded.status = REVIEWED THEN "already reviewed"
    ELSE IF loaded.status # IN_PROGRESS THEN "not started"
    ELSE IF ~has_changes(repo) THEN "no changes"
    ELSE ""

\* Mutant: a submitted or reviewed record passes the status checks.
submit_rejection_any_status ==
    IF ~exists THEN "no session"
    ELSE IF ~loads THEN "error"
    ELSE IF ~journal THEN "journal invalid"
    ELSE IF ~has_changes(repo) THEN "no changes"
    ELSE ""

\* submit_challenge's checks, in the order of the code.
submit_rejection ==
    IF ~exists THEN "no session"
    ELSE IF ~loads THEN "error"
    ELSE IF loaded.status = SUBMITTED THEN "already submitted"
    ELSE IF loaded.status = REVIEWED THEN "already reviewed"
    ELSE IF loaded.status # IN_PROGRESS THEN "not started"
    ELSE IF ~journal THEN "journal invalid"
    ELSE IF ~has_changes(repo) THEN "no changes"
    ELSE ""

\* Mutant: any record that loads may be compared.
compare_rejection_any_status ==
    IF ~exists THEN "no session"
    ELSE IF ~loads THEN "error"
    ELSE ""

compare_rejection ==
    IF ~exists THEN "no session"
    ELSE IF ~loads THEN "error"
    ELSE IF loaded.status \notin {SUBMITTED, REVIEWED} THEN "must submit first"
    ELSE ""

\* Mutant: any record that loads may be reviewed.
review_rejection_any_status ==
    IF ~exists THEN "no session"
    ELSE IF ~loads THEN "error"
    ELSE ""

\* review_challenge's checks before it reads the journal.
review_rejection ==
    IF ~exists THEN "no session"
    ELSE IF ~loads THEN "error"
    ELSE IF loaded.status \notin {SUBMITTED, REVIEWED} THEN "must submit first"
    ELSE ""

\* save_manual_review checks that the file exists, and nothing of the status.
score_rejection ==
    IF ~exists THEN "no session"
    ELSE IF ~loads THEN "error"
    ELSE ""

\* The clock moves on.
tick ==
    /\ now < MaxClock
    /\ now' = now + 1
    /\ UNCHANGED <<disk, repo, journal, artifact, bundle, pc, mem, test_command, calc>>

\* forge start: workspace.setup_workspace.  git_fails: clone_repo or
\* fetch_commit raises before anything of the workspace is touched.
setup_workspace(git_fails) ==
    /\ pc = "idle"
    /\ IF start_rejection # "" \/ git_fails
       THEN UNCHANGED <<disk, repo, journal>>
       ELSE /\ repo' = {}
            /\ journal' = FALSE
            /\ \E torn \in BOOLEAN : disk' = save(initial_session(now), torn)
    /\ UNCHANGED <<artifact, bundle, now, pc, mem, test_command, calc>>

\* forge think: the user edits journal.md; it then passes validate_journal or not.
think(valid) ==
    /\ pc = "idle"
    /\ exists
    /\ journal' = valid
    /\ UNCHANGED <<disk, repo, artifact, bundle, now, pc, mem, test_command, calc>>

\* The user edits or adds files in workspace/repo.
edit_repo(tree) ==
    /\ pc = "idle"
    /\ exists
    /\ repo' = tree
    /\ UNCHANGED <<disk, journal, artifact, bundle, now, pc, mem, test_command, calc>>

\* Mutant: the hint revealed is always the first one.
next_idx_first(session) == 0

\* show_hint: next_idx = used_count, the number of hints used so far.
next_idx(session) == Len(session.hints_used)

\* forge hint: hints.show_hint.
show_hint ==
    /\ pc = "idle"
    /\ IF hint_rejection # ""
       THEN UNCHANGED disk
       ELSE \E torn \in BOOLEAN :
              disk' = save([loaded EXCEPT !.hints_used =
                              Append(loaded.hints_used, next_idx(loaded))],
                           torn)
    /\ UNCHANGED <<repo, journal, artifact, bundle, now, pc, mem, test_command, calc>>

\* forge submit: submission.submit_challenge up to "Check for changes": the
\* first check that fails reports and returns.
submit_challenge ==
    /\ pc = "idle"
    /\ IF submit_rejection # ""
       THEN UNCHANGED <<pc, mem>>
       ELSE /\ pc' = "capture diff"
            /\ mem' = loaded
    /\ UNCHANGED <<disk, repo, journal, artifact, bundle, now, test_command, calc>>

\* "Capture diff": get_all_changes(repo_dir) returns, or git fails and the
\* GitError ends the command.
submit_capture_diff(git_fails) ==
    /\ pc = "capture diff"
    /\ IF git_fails
       THEN /\ pc' = "idle"
            /\ mem' = Session("ch")
       ELSE /\ pc' = "write artifact"
            /\ UNCHANGED mem
    /\ UNCHANGED <<disk, repo, journal, artifact, bundle, now, test_command, calc>>

\* Mutant: the record is saved as soon as the diff is in it.
submit_write_artifact_saving ==
    /\ pc = "write artifact"
    /\ artifact' = Some(get_all_changes(repo))
    /\ mem' = [mem EXCEPT !.user_diff = get_all_changes(repo)]
    /\ disk' = save(mem', FALSE)
    /\ pc' = "run tests"
    /\ UNCHANGED <<repo, journal, bundle, now, test_command, calc>>

\* (sub_dir / "user.diff").write_text(user_diff); session.user_diff = user_diff
submit_write_artifact ==
    /\ pc = "write artifact"
    /\ artifact' = Some(get_all_changes(repo))
    /\ mem' = [mem EXCEPT !.user_diff = get_all_changes(repo)]
    /\ pc' = "run tests"
    /\ UNCHANGED <<disk, repo, journal, bundle, now, test_command, calc>>

\* "Run tests if configured"
submit_run_tests(outcome) ==
    /\ pc = "run tests"
    /\ mem' = IF test_command
              THEN [mem EXCEPT !.test_passed = Some(run_tests(outcome).passed),
                               !.test_output = run_tests(outcome).output]
              ELSE mem
    /\ pc' = "save"
    /\ UNCHANGED <<disk, repo, journal, artifact, bundle, now, test_command, calc>>

\* "Update session": session.submit(); session.save(sf)
submit_save ==
    /\ pc = "save"
    /\ \E torn \in BOOLEAN : disk' = save(submit(mem, now), torn)
    /\ pc' = "idle"
    /\ mem' = Session("ch")
    /\ UNCHANGED <<repo, journal, artifact, bundle, now, test_command, calc>>

\* Ctrl-C while submit is capturing the diff, writing user.diff or running the
\* tests: cli._error_handler reports and exits.
interrupt ==
    /\ pc \in {"capture diff", "write artifact", "run tests"}
    /\ pc' = "idle"
    /\ mem' = Session("ch")
    /\ UNCHANGED <<disk, repo, journal, artifact, bundle, now, test_command, calc>>

\* forge compare: compare.compare_solutions.  fetched: _get_solution_diff got
\* the diff; otherwise it returns "" and the placeholder is stored.
compare_solutions(fetched) ==
    /\ pc = "idle"
    /\ IF compare_rejection # ""
       THEN UNCHANGED disk
       ELSE \E torn \in BOOLEAN :
              disk' = save([loaded EXCEPT !.solution_diff =
                              IF fetched THEN "solution diff" ELSE "(unavailable)"],
                           torn)
    /\ UNCHANGED <<repo, journal, artifact, bundle, now, pc, mem, test_command, calc>>

\* Mutant: the hint penalty is applied to whatever score is stored.
reviewed_penalized(session, score) ==
    [session EXCEPT !.review = Some(apply_hint_penalty(score, session)),
                    !.status = REVIEWED]

\* Mutant: the review is stored and the status left as it was.
reviewed_status_kept(session, score) == [session EXCEPT !.review = Some(score)]

\* session.review = score; session.status = SessionStatus.REVIEWED
reviewed(session, score) ==
    [session EXCEPT !.review = Some(score), !.status = REVIEWED]

\* Mutant: a configured oracle is asked even when export is requested.
stores_review_despite_export(export, api, reply) ==
    api /\ api_review(reply) # None

\* "if not export and api_key and api_provider" and then "if score": the
\* review is stored; otherwise review_challenge goes on to "Export mode".
stores_review(export, api, reply) ==
    ~export /\ api /\ api_review(reply) # None

\* forge review: review.review_challenge.  api: an API key and provider are
\* configured; reply: what the oracle call comes to.  The export branch writes
\* review_export.md and nothing of the record.
review_challenge(export, api, reply) ==
    /\ pc = "idle"
    /\ IF review_rejection # ""
       THEN UNCHANGED <<disk, bundle>>
       ELSE IF stores_review(export, api, reply)
       THEN /\ \E torn \in BOOLEAN :
                 disk' = save(reviewed(loaded,
                                       apply_hint_penalty(api_review(reply)[1], loaded)),
                              torn)
            /\ UNCHANGED bundle
       ELSE /\ UNCHANGED disk
            /\ bundle' = TRUE
    /\ UNCHANGED <<repo, journal, artifact, now, pc, mem, test_command, calc>>

\* forge review --score: review.save_manual_review.
save_manual_review(scores, feedback) ==
    /\ pc = "idle"
    /\ IF score_rejection # ""
       THEN UNCHANGED disk
       ELSE \E torn \in BOOLEAN :
              disk' = save(reviewed(loaded,
                                    ReviewScore(
                                        clamp(JInt(scores[1])), clamp(JInt(scores[2])),
                                        clamp(JInt(scores[3])), clamp(JInt(scores[4])),
                                        clamp(JInt(scores[5])), feedback)),
                           torn)
    /\ UNCHANGED <<repo, journal, artifact, bundle, now, pc, mem, test_command, calc>>

\* forge reset: cli.reset removes the workspace directory once confirmed.
reset(confirmed) ==
    /\ pc = "idle"
    /\ IF ~exists \/ ~confirmed
       THEN UNCHANGED <<disk, repo, journal, artifact, bundle>>
       ELSE /\ disk' = Absent
            /\ repo' = {}
            /\ journal' = FALSE
            /\ artifact' = None
            /\ bundle' = FALSE
    /\ UNCHANGED <<now, pc, mem, test_command, calc>>

Init ==
    /\ disk = Absent
    /\ repo = {}
    /\ journal = FALSE
    /\ artifact = None
    /\ bundle = FALSE
    /\ now = 0
    /\ pc = "idle"
    /\ mem = Session("ch")
    /\ test_command \in BOOLEAN
    /\ calc = NoCalc

Next ==
    \/ tick
    \/ \E git_fails \in BOOLEAN : setup_workspace(git_fails)
    \/ \E valid \in BOOLEAN : think(valid)
    \/ \E tree \in SUBSET Kinds : edit_repo(tree)
    \/ show_hint
    \/ submit_challenge
    \/ \E git_fails \in BOOLEAN : submit_capture_diff(git_fails)
    \/ submit_write_artifact
    \/ \E outcome \in TestOutcomes : submit_run_tests(outcome)
    \/ submit_save
    \/ interrupt
    \/ \E fetched \in BOOLEAN : compare_solutions(fetched)
    \/ \E reply \in OracleReplies : review_challenge(FALSE, TRUE, reply)
    \/ \E api \in BOOLEAN : review_challenge(TRUE, api, Reply(<<C8Block>>))
    \/ review_challenge(FALSE, FALSE, ErrorReply)
    \/ \E scores \in ManualScores : save_manual_review(scores, "")
    \/ \E confirmed \in BOOLEAN : reset(confirmed)

Spec == Init /\ [][Next]_vars

\* ------------------------------------------ stats.collect_stats on a catalog
\* challenge.load_all_challenges(): the catalog, one challenge per id.
load_all_challenges == <<"ch", "ch2", "ch3">>

\* Session.elapsed_minutes with datetime.now() = t, in clock units.
elapsed_minutes(session, t) ==
    IF session.start_time = None THEN None
    ELSE LET end == IF session.end_time # None THEN session.end_time[1] ELSE t
         IN  Some(end - session.start_time[1])

\* Mutant: the entry of a reviewed record carries the review and no average.
summary_without_average(id, session, t) ==
    [ id              |-> id,
      status          |-> session.status,
      elapsed_minutes |-> elapsed_minutes(session, t),
      hints_used      |-> Len(session.hints_used),
      test_passed     |-> session.test_passed,
      start_time      |-> session.start_time,
      end_time        |-> session.end_time,
      review          |-> session.review,
      average_score   |-> None ]

\* The entry collect_stats builds of a session: the keys review and
\* average_score are there when session.review is (None: the key is absent).
summary(id, session, t) ==
    [ id              |-> id,
      status          |-> session.status,
      elapsed_minutes |-> elapsed_minutes(session, t),
      hints_used      |-> Len(session.hints_used),
      test_passed     |-> session.test_passed,
      start_time      |-> session.start_time,
      end_time        |-> session.end_time,
      review          |-> IF session.review # None THEN session.review ELSE None,
      average_score   |-> IF session.review # None
                          THEN Some(average(session.review[1])) ELSE None ]

\* The loop of collect_stats from the i-th challenge of the catalog on: a
\* missing file, a file Session.load raises on and a session neither
\* Submitted nor Reviewed are passed over ("continue").
RECURSIVE collect_stats_from(_, _, _)
collect_stats_from(files, t, i) ==
    IF i > Len(load_all_challenges) THEN <<>>
    ELSE LET file == files[i]
             rest == collect_stats_from(files, t, i + 1)
         IN  IF file.kind = "absent" THEN rest
             ELSE IF file.kind # "ok" THEN rest
             ELSE IF load(file.data).status \notin {SUBMITTED, REVIEWED} THEN rest
             ELSE <<summary(load_all_challenges[i], load(file.data), t)>> \o rest

\* Mutant: the exception of Session.load ends the collection.
collect_stats_aborting(files, t) ==
    IF \E i \in DOMAIN files : files[i].kind = "corrupt" THEN <<>>
    ELSE collect_stats_from(files, t, 1)

\* collect_stats()
collect_stats(files, t) == collect_stats_from(files, t, 1)

\* What the session file of challenge id can hold: nothing, a torn write, or
\* the record of a session started at 0, submitted at 1 after one hint,
\* reviewed after that, or scored by hand while in progress.
Records(id) ==
    LET started   == start(Session(id), 0)
        submitted == submit([started EXCEPT !.hints_used = <<0>>], 1)
    IN  { [kind |-> "absent", data |-> to_json(Session(id))],
          [kind |-> "corrupt", data |-> to_json(Session(id))],
          Written(started),
          Written(submitted),
          Written(reviewed(submitted, ReviewScore(8, 7, 7, 6, 9, "feedback"))),
          Written(reviewed(submitted, ReviewScore(1, 1, 1, 1, 1, ""))),
          Written(reviewed(started, ReviewScore(5, 5, 5, 5, 5, ""))) }

NoCollection == [stage |-> "files", files |-> <<>>, stats |-> <<>>, again |-> <<>>]

\* forge stats: collect_stats() reads the files and writes none.
calc_collect ==
    /\ calc.stage = "files"
    /\ calc' = [calc EXCEPT !.stage = "collected",
                   !.stats = collect_stats(calc.files, now)]
    /\ UNCHANGED <<disk, repo, journal, artifact, bundle, now, pc, mem, test_command>>

CollectInit ==
    /\ \E files \in [1..Len(load_all_challenges) ->
                        UNION {Records(load_all_challenges[i]) :
                                 i \in 1..Len(load_all_challenges)}] :
          /\ \A i \in DOMAIN files : files[i] \in Records(load_all_challenges[i])
          /\ calc = [NoCollection EXCEPT !.files = files]
    /\ now \in 1..(MaxClock + 1)
    /\ disk = Absent
    /\ repo = {}
    /\ journal = FALSE
    /\ artifact = None
    /\ bundle = FALSE
    /\ pc = "idle"
    /\ mem = Session("ch")
    /\ test_command = FALSE

\* Time passes between two runs of forge stats.
time_passes ==
    /\ calc.stage = "collected"
    /\ now < MaxClock + 2
    /\ now' = now + 1
    /\ UNCHANGED <<disk, repo, journal, artifact, bundle, pc, mem, test_command, calc>>

\* forge stats once more, with no other command in between.
calc_collect_again ==
    /\ calc.stage = "collected"
    /\ calc' = [calc EXCEPT !.stage = "collected twice",
                   !.again = collect_stats(calc.files, now)]
    /\ UNCHANGED <<disk, repo, journal, artifact, bundle, now, pc, mem, test_command>>

CollectNext == calc_collect \/ time_passes \/ calc_collect_again

CollectSpec == CollectInit /\ [][CollectNext]_vars

\* ------------------------------------- submit and review with their timeouts
\* _run_tests(repo_dir, test_command, timeout=120), in seconds.
timeout == 120

\* The providers _api_review knows and the timeout of each one's httpx.post.
Providers == {"anthropic", "openai", "openrouter"}
request_timeout(provider) == IF provider = "openrouter" THEN 90 ELSE 60

\* What the oracle does with a request: it answers with a score object, it
\* refuses (an HTTP error), or it never answers.
Oracles == {"answers", "refuses", "never answers"}

\* Mutant: the call is made without a timeout.
expired_never(elapsed, limit) == FALSE

\* subprocess.run(..., timeout=limit) and httpx.post(..., timeout=limit) raise
\* once limit seconds have passed without the call returning.
expired(elapsed, limit) == elapsed >= limit

\* The TimeoutExpired branch of _run_tests, as an outcome.
TimedOut == [how |-> "timeout", rc |-> 0, output |-> ""]

\* command: what the test command does ("timeout": it never exits); call:
\* the external call under way; elapsed: the seconds it has taken so far;
\* returned, reply: what the call came back with.
NoTiming ==
    [ stage |-> "timed", command |-> TimedOut, provider |-> "anthropic",
      oracle |-> "answers", call |-> "none", elapsed |-> 0,
      returned |-> None, reply |-> None ]

\* A second passes while the test command runs.
subprocess_run_wait ==
    /\ pc = "run tests"
    /\ test_command
    /\ calc.returned = None
    /\ calc.elapsed < timeout
    /\ calc' = [calc EXCEPT !.elapsed = @ + 1]
    /\ UNCHANGED <<disk, repo, journal, artifact, bundle, now, pc, mem, test_command>>

\* The test command exits, or the shell cannot be started.
subprocess_run_returns ==
    /\ pc = "run tests"
    /\ test_command
    /\ calc.returned = None
    /\ calc.command.how # "timeout"
    /\ calc' = [calc EXCEPT !.returned = Some(calc.command), !.elapsed = 0]
    /\ UNCHANGED <<disk, repo, journal, artifact, bundle, now, pc, mem, test_command>>

\* subprocess.run raises TimeoutExpired.
subprocess_run_expires ==
    /\ pc = "run tests"
    /\ test_command
    /\ calc.returned = None
    /\ expired(calc.elapsed, timeout)
    /\ calc' = [calc EXCEPT !.returned = Some(TimedOut), !.elapsed = 0]
    /\ UNCHANGED <<disk, repo, journal, artifact, bundle, now, pc, mem, test_command>>

\* "Run tests if configured", once _run_tests has returned.
timed_run_tests ==
    /\ test_command => calc.returned # None
    /\ submit_run_tests(IF test_command THEN calc.returned[1] ELSE calc.command)

\* forge review with an oracle configured: review_challenge up to the call
\* of _api_review.
review_call ==
    /\ pc = "idle"
    /\ review_rejection = ""
    /\ calc.call = "none"
    /\ calc' = [calc EXCEPT !.call = "oracle", !.elapsed = 0]
    /\ UNCHANGED <<disk, repo, journal, artifact, bundle, now, pc, mem, test_command>>

\* A second passes while httpx.post waits for the oracle.
httpx_post_wait ==
    /\ calc.call = "oracle"
    /\ calc.reply = None
    /\ calc.elapsed < request_timeout(calc.provider)
    /\ calc' = [calc EXCEPT !.elapsed = @ + 1]
    /\ UNCHANGED <<disk, repo, journal, artifact, bundle, now, pc, mem, test_command>>

\* The oracle answers, or refuses and raise_for_status raises.
httpx_post_returns ==
    /\ calc.call = "oracle"
    /\ calc.reply = None
    /\ calc.oracle # "never answers"
    /\ calc' = [calc EXCEPT !.elapsed = 0,
                   !.reply = Some(IF calc.oracle = "answers"
                                  THEN Reply(<<C8Block>>) ELSE ErrorReply)]
    /\ UNCHANGED <<disk, repo, journal, artifact, bundle, now, pc, mem, test_command>>

\* httpx.post raises a timeout, which _api_review catches as an Exception.
httpx_post_expires ==
    /\ calc.call = "oracle"
    /\ calc.reply = None
    /\ expired(calc.elapsed, request_timeout(calc.provider))
    /\ calc' = [calc EXCEPT !.elapsed = 0, !.reply = Some(ErrorReply)]
    /\ UNCHANGED <<disk, repo, journal, artifact, bundle, now, pc, mem, test_command>>

\* review_challenge from the return of _api_review on.
timed_review ==
    /\ calc.call = "oracle"
    /\ calc.reply # None
    /\ review_challenge(FALSE, TRUE, calc.reply[1])

\* A session in progress with a valid journal and a change in the tree.
TimedInit ==
    /\ \E command \in TestOutcomes, provider \in Providers, oracle \in Oracles :
          calc = [NoTiming EXCEPT !.command = command, !.provider = provider,
                                  !.oracle = oracle]
    /\ disk = Written(initial_session(0))
    /\ repo = {"modified"}
    /\ journal = TRUE
    /\ artifact = None
    /\ bundle = FALSE
    /\ now = 0
    /\ pc = "idle"
    /\ mem = Session("ch")
    /\ test_command \in BOOLEAN

TimedNext ==
    \/ submit_challenge
    \/ \E git_fails \in BOOLEAN : submit_capture_diff(git_fails)
    \/ submit_write_artifact
    \/ subprocess_run_wait
    \/ subprocess_run_returns
    \/ subprocess_run_expires
    \/ timed_run_tests
    \/ submit_save
    \/ review_call
    \/ httpx_post_wait
    \/ httpx_post_returns
    \/ httpx_post_expires
    \/ timed_review

\* The commands are run by one process that takes its steps one after the
\* other, and the seconds of a pending call go by.
TimedSpec == TimedInit /\ [][TimedNext]_vars /\ WF_vars(TimedNext)

\* ------------------------------------------ challenge.pick_challenge
\* models.py Difficulty values.
Difficulty == {"easy", "medium", "hard"}

\* challenge.get_session_status: NOT_STARTED for a missing file and for one
\* Session.load raises KeyError or ValueError on (a JSONDecodeError is one).
get_session_status(file) ==
    IF file.kind = "absent" THEN NOT_STARTED
    ELSE IF file.kind # "ok" THEN NOT_STARTED
    ELSE load(file.data).status

\* The challenges of the given ones that are neither Submitted nor Reviewed.
incomplete(files, challenges) ==
    {i \in challenges : get_session_status(files[i]) \notin {SUBMITTED, REVIEWED}}

\* Mutant: the difficulty asked for is not looked at.
pick_challenge_unfiltered(files, difficulties, difficulty) ==
    incomplete(files, DOMAIN files)

\* pick_challenge(difficulty) with no id: the list random.choice draws from.
\* With nothing left at the difficulty asked for, it is every challenge of
\* the catalog that is not completed.
pick_challenge(files, difficulties, difficulty) ==
    LET challenges == {i \in DOMAIN files : difficulties[i] = difficulty}
    IN  IF incomplete(files, challenges) # {}
        THEN incomplete(files, challenges)
        ELSE incomplete(files, DOMAIN files)

NoPick ==
    [ stage |-> "catalog", files |-> <<>>, difficulties |-> <<>>,
      difficulty |-> "easy", picked |-> None ]

\* forge challenge --difficulty d: random.choice(incomplete), or None.
calc_pick(i) ==
    /\ calc.stage = "catalog"
    /\ i \in pick_challenge(calc.files, calc.difficulties, calc.difficulty)
    /\ calc' = [calc EXCEPT !.stage = "picked", !.picked = Some(i)]
    /\ UNCHANGED <<disk, repo, journal, artifact, bundle, now, pc, mem, test_command>>

calc_pick_none ==
    /\ calc.stage = "catalog"
    /\ pick_challenge(calc.files, calc.difficulties, calc.difficulty) = {}
    /\ calc' = [calc EXCEPT !.stage = "picked", !.picked = None]
    /\ UNCHANGED <<disk, repo, journal, artifact, bundle, now, pc, mem, test_command>>

PickInit ==
    /\ \E files \in [1..Len(load_all_challenges) ->
                        UNION {Records(load_all_challenges[i]) :
                                 i \in 1..Len(load_all_challenges)}],
          difficulties \in [1..Len(load_all_challenges) -> Difficulty],
          difficulty \in Difficulty :
          /\ \A i \in DOMAIN files : files[i] \in Records(load_all_challenges[i])
          /\ calc = [NoPick EXCEPT !.files = files, !.difficulties = difficulties,
                                   !.difficulty = difficulty]
    /\ now = 1
    /\ disk = Absent
    /\ repo = {}
    /\ journal = FALSE
    /\ artifact = None
    /\ bundle = FALSE
    /\ pc = "idle"
    /\ mem = Session("ch")
    /\ test_command = FALSE

PickNext ==
    \/ \E i \in 1..Len(load_all_challenges) : calc_pick(i)
    \/ calc_pick_none

PickSpec == PickInit /\ [][PickNext]_vars

\* ================================================================ claims

\* The order of the persisted statuses.
Rank(status) ==
    CASE status = NOT_STARTED -> 0
      [] status = IN_PROGRESS -> 1
      [] status = SUBMITTED -> 2
      [] OTHER -> 3

\* C1 (as stated): the record is Reviewed only if it was Submitted before: a
\* step that stores a Reviewed record starts from a Submitted or Reviewed
\* record; and manual score entry on a record that is neither Submitted nor
\* Reviewed is rejected and leaves the record unchanged.
C1_ReviewedOnlyAfterSubmitted ==
    [][ /\ (disk'.kind = "ok" /\ disk'.data.status = REVIEWED) =>
              (disk.kind = "ok" /\ disk.data.status \in {SUBMITTED, REVIEWED})
        /\ ((\E scores \in ManualScores : save_manual_review(scores, ""))
              /\ loads /\ loaded.status \notin {SUBMITTED, REVIEWED}) =>
              disk' = disk ]_vars

\* C2 (as stated): no step other than reset takes the persisted status
\* backward in the order InProgress < Submitted < Reviewed.
C2_StatusNeverMovesBackward ==
    [][ (disk.kind = "ok" /\ disk'.kind = "ok") =>
            Rank(disk'.data.status) >= Rank(disk.data.status) ]_vars

\* C3: in every persisted record, a review that is present comes with the
\* status Reviewed.
C3_ReviewImpliesReviewed ==
    (loads /\ disk.data.review # None) => disk.data.status = REVIEWED

\* C3 witness: a persisted record that holds a review.
C3_Witness ==
    /\ loads
    /\ disk.data.review # None
    /\ disk.data.status = REVIEWED

\* C4: in every persisted record, the status Submitted or Reviewed comes with
\* a start_time that is set.
C4_SubmittedHasStartTime ==
    (loads /\ disk.data.status \in {SUBMITTED, REVIEWED}) =>
        disk.data.start_time # None

\* C4 witness: a persisted Submitted record, submitted after the clock moved.
C4_Witness ==
    /\ loads
    /\ disk.data.status = SUBMITTED
    /\ disk.data.start_time = Some(0)
    /\ disk.data.end_time = Some(1)

\* C5: submit on a record whose status is not InProgress (no record, Submitted
\* or Reviewed) is rejected: it goes on to no later step and leaves the record
\* and the diff artifact as they were, whatever the working tree holds; so the
\* user_diff, test_passed, test_output, end_time and status of the first
\* submit stay.
C5_SubmitRejectedUnlessInProgress ==
    [][ (submit_challenge /\ ~(loads /\ loaded.status = IN_PROGRESS)) =>
            /\ submit_rejection # ""
            /\ pc' = "idle"
            /\ disk' = disk
            /\ artifact' = artifact ]_vars

\* C5 witness: a Submitted record, the journal valid, and a working tree whose
\* diff is no longer the one stored: a second submit would store another diff.
C5_Witness ==
    /\ pc = "idle"
    /\ loads
    /\ loaded.status = SUBMITTED
    /\ journal
    /\ has_changes(repo)
    /\ get_all_changes(repo) # loaded.user_diff
    /\ submit_rejection = "already submitted"

\* What no InProgress record holds.
NothingOfSubmit(s) ==
    /\ s.user_diff = {}
    /\ s.test_passed = None
    /\ s.end_time = None

\* C6: a step of submit that captures the diff, writes the artifact or runs
\* the tests, and a failure or an interruption there, leaves the persisted
\* record as it was; and no persisted InProgress record holds a user_diff, a
\* test_passed or an end_time.
C6_SubmitAllOrNothing ==
    [][ /\ pc \in {"capture diff", "write artifact", "run tests"} => disk' = disk
        /\ (loads /\ loaded.status = IN_PROGRESS) => NothingOfSubmit(loaded)
        /\ (disk'.kind = "ok" /\ disk'.data.status = IN_PROGRESS) =>
              NothingOfSubmit(load(disk'.data)) ]_vars

\* C6 witness: submit has written the diff artifact and is about to run the
\* tests: the object in memory holds the diff, the record on disk is the
\* InProgress one of before.
C6_Witness ==
    /\ pc = "run tests"
    /\ mem.user_diff = {"modified"}
    /\ artifact = Some({"modified"})
    /\ loads
    /\ loaded.status = IN_PROGRESS
    /\ NothingOfSubmit(loaded)

\* The replies whose structured block lacks score fields.
LackingFields == { Reply(<<EmptyObject>>) }

\* C11 (as stated): an oracle reply whose block lacks score fields (the empty
\* object included) is a parse failure: automatic review stores no review,
\* leaves the record as it was and writes the export bundle (a save cut short
\* is left aside).
C11_MissingFieldsFail ==
    [][ (review_rejection = "" /\ disk'.kind = "ok"
           /\ \E reply \in LackingFields : review_challenge(FALSE, TRUE, reply)) =>
            /\ disk' = disk
            /\ bundle' ]_vars

\* The oracle calls that give no score: a transport error, an unsupported
\* provider, a reply with no block, a reply whose first block is no JSON.
FailedReplies ==
    { ErrorReply, UnsupportedProvider, Reply(<<>>), Reply(<<Malformed, C8Block>>) }

\* C12: when the oracle call fails in automatic mode, review does not raise:
\* it writes the export bundle and leaves the persisted record as it was (a
\* Submitted record stays Submitted without review, a Reviewed record keeps
\* its review).
C12_OracleFailureFallsBack ==
    [][ (review_rejection = ""
           /\ \E reply \in FailedReplies : review_challenge(FALSE, TRUE, reply)) =>
            /\ \A reply \in FailedReplies : api_review(reply) = None
            /\ disk' = disk
            /\ bundle' ]_vars

\* C12 witness: a Reviewed record that kept its review, the bundle written.
C12_Witness ==
    /\ pc = "idle"
    /\ loads
    /\ loaded.status = REVIEWED
    /\ loaded.review = Some(ReviewScore(8, 7, 9, 6, 8, "feedback"))
    /\ bundle

\* C13: export-mode review (requested, or no oracle configured) of a
\* Submitted or Reviewed record succeeds, writes the bundle and leaves every
\* field of the persisted record as it was.
C13_ExportLeavesRecord ==
    [][ (loads /\ loaded.status \in {SUBMITTED, REVIEWED}
           /\ (\/ \E api \in BOOLEAN : review_challenge(TRUE, api, Reply(<<C8Block>>))
               \/ review_challenge(FALSE, FALSE, ErrorReply))) =>
            /\ review_rejection = ""
            /\ disk' = disk
            /\ bundle' ]_vars

\* C13 witness: a Submitted record without review, the bundle written.
C13_Witness ==
    /\ pc = "idle"
    /\ loads
    /\ loaded.status = SUBMITTED
    /\ loaded.review = None
    /\ bundle

\* C14: manual entry of five integers in 1..10 on a Submitted record, whatever
\* the number of hints used, stores the five values as given, sets the status
\* Reviewed and changes no other field.
C14_ManualScoresStoredAsGiven ==
    [][ \A scores \in ManualScores :
          (/\ \A i \in 1..5 : scores[i] \in 1..10
           /\ loads /\ loaded.status = SUBMITTED
           /\ disk'.kind = "ok"
           /\ save_manual_review(scores, "")) =>
              disk'.data =
                 [disk.data EXCEPT
                    !.review = Some(ReviewScore(scores[1], scores[2], scores[3],
                                                scores[4], scores[5], "")),
                    !.status = REVIEWED] ]_vars

\* C14 witness: a record submitted after two hints, reviewed by manual entry.
C14_Witness ==
    /\ loads
    /\ loaded.status = REVIEWED
    /\ loaded.end_time # None
    /\ loaded.hints_used = <<0, 1>>
    /\ loaded.review = Some(ReviewScore(5, 5, 5, 5, 5, ""))

\* C15: review, automatic or export, of a challenge with no record or with a
\* NotStarted or InProgress record is rejected: the record stays as it was, no
\* review is stored and no export bundle is written.
C15_ReviewNeedsSubmission ==
    [][ ((~exists \/ (loads /\ loaded.status \in {NOT_STARTED, IN_PROGRESS}))
           /\ (\/ \E reply \in OracleReplies : review_challenge(FALSE, TRUE, reply)
               \/ \E api \in BOOLEAN : review_challenge(TRUE, api, Reply(<<C8Block>>))
               \/ review_challenge(FALSE, FALSE, ErrorReply))) =>
            /\ review_rejection \in {"no session", "must submit first"}
            /\ disk' = disk
            /\ bundle' = bundle ]_vars

\* C15 witness: an InProgress record with changes and a valid journal, not
\* submitted, and no bundle.
C15_Witness ==
    /\ pc = "idle"
    /\ loads
    /\ loaded.status = IN_PROGRESS
    /\ journal
    /\ has_changes(repo)
    /\ ~bundle
    /\ review_rejection = "must submit first"

\* A submit that has passed its checks and not yet saved.
SubmitUnderWay == pc \in {"capture diff", "write artifact", "run tests", "save"}

\* C16 (as stated): submit of an InProgress record with no change in the
\* working tree is rejected for "no changes", the journal valid or not, and
\* leaves the record as it was: no submit is under way on an unchanged tree.
C16_NoChangesReasonAlways ==
    /\ (pc = "idle" /\ loads /\ loaded.status = IN_PROGRESS /\ ~has_changes(repo)) =>
            submit_rejection = "no changes"
    /\ SubmitUnderWay => has_changes(repo)

\* C16 (amended): submit of an InProgress record with no change in the working
\* tree is rejected and leaves the record as it was (no submit is under way on
\* an unchanged tree); the reason is "no changes" when the journal is valid,
\* and the journal's when it is not (the journal is validated first).
C16_NoChangesRejected ==
    /\ (pc = "idle" /\ loads /\ loaded.status = IN_PROGRESS /\ ~has_changes(repo)) =>
            submit_rejection = IF journal THEN "no changes" ELSE "journal invalid"
    /\ SubmitUnderWay => has_changes(repo)

\* C16 witness: an InProgress record, an invalid journal, an unchanged tree.
C16_Witness ==
    /\ pc = "idle"
    /\ loads
    /\ loaded.status = IN_PROGRESS
    /\ loaded.hints_used = <<0>>
    /\ ~journal
    /\ ~has_changes(repo)
    /\ submit_rejection = "journal invalid"

\* The reasons submit gives.
SubmitReasons ==
    << "no session", "already submitted", "already reviewed", "not started",
       "journal invalid", "no changes" >>

\* C17: submit checks, in this order, that the record exists, that its status
\* is InProgress, that the journal is valid and that the tree has changes; it
\* reports the reason of the first check that fails, the reasons are pairwise
\* distinct, and after a failing check nothing more is done: a submit is
\* under way only when every check has passed.
C17_SubmitCheckOrder ==
    /\ pc = "idle" =>
          /\ ~exists => submit_rejection = SubmitReasons[1]
          /\ (loads /\ loaded.status = SUBMITTED) =>
                submit_rejection = SubmitReasons[2]
          /\ (loads /\ loaded.status = REVIEWED) =>
                submit_rejection = SubmitReasons[3]
          /\ (loads /\ loaded.status = NOT_STARTED) =>
                submit_rejection = SubmitReasons[4]
          /\ (loads /\ loaded.status = IN_PROGRESS /\ ~journal) =>
                submit_rejection = SubmitReasons[5]
          /\ (loads /\ loaded.status = IN_PROGRESS /\ journal /\ ~has_changes(repo)) =>
                submit_rejection = SubmitReasons[6]
          /\ (loads /\ loaded.status = IN_PROGRESS /\ journal /\ has_changes(repo)) =>
                submit_rejection = ""
    /\ \A i, j \in 1..Len(SubmitReasons) :
          i # j => SubmitReasons[i] # SubmitReasons[j]
    /\ SubmitUnderWay =>
          /\ loads /\ loaded.status = IN_PROGRESS
          /\ journal
          /\ has_changes(repo)
          /\ mem.status = IN_PROGRESS

\* C17 witness: a Submitted record, the journal invalid and the tree
\* unchanged: three checks would fail, the status is the one reported.
C17_Witness ==
    /\ pc = "idle"
    /\ loads
    /\ loaded.status = SUBMITTED
    /\ ~journal
    /\ ~has_changes(repo)
    /\ submit_rejection = "already submitted"

\* C18 (as stated): no empty diff is submitted: every persisted Submitted
\* record has a user_diff that is not empty.
C18_NoEmptyDiffSubmitted ==
    (loads /\ loaded.status = SUBMITTED) => loaded.user_diff # {}

\* The sum of the five scores of every reviewed entry.
RECURSIVE Totals(_)
Totals(entries) ==
    IF entries = <<>> THEN 0 ELSE Head(entries).total + Totals(Tail(entries))

\* The mean of the reviewed entries' averages is at least t: the totals over
\* five times the number of reviewed entries (0 when there is none).
MeanAtLeast(stats, t) ==
    IF stats.reviewed = <<>> THEN 0 >= t
    ELSE Totals(stats.reviewed) >= 5 * Len(stats.reviewed) * t

\* The three thresholds of a level hold, the hard count being the one
\* calculate_level took.
Holds(c, level) ==
    /\ len(c.stats) >= level.min_completed
    /\ MeanAtLeast(c.stats, level.min_avg_score)
    /\ c.hard_completed >= level.min_hard

\* C19 (as stated): for a collection with at least one entry the level is the
\* tier k in 1..5 whose thresholds (entries completed, mean of the reviewed
\* entries' averages, hard count) hold for every tier 1..k and fail for tier
\* k+1 when k < 5.
C19_LevelIsHighestContiguousTier ==
    (calc.stage = "levelled" /\ len(calc.stats) >= 1) =>
        /\ calc.level.level \in 1..5
        /\ \A j \in 1..calc.level.level : Holds(calc, LEVELS[j])
        /\ calc.level.level < 5 => ~Holds(calc, LEVELS[calc.level.level + 1])

\* C20 (as stated): the hard count the thresholds are compared against is the
\* number of collected entries, Submitted or Reviewed, whose difficulty is hard.
C20_HardCountOverCompleted ==
    calc.stage = "levelled" =>
        calc.hard_completed =
            calc.stats.pending["hard"]
              + Cardinality({i \in 1..Len(calc.stats.reviewed) :
                               calc.stats.reviewed[i].difficulty = "hard"})

\* max(1, floor(x - 0.5 n)), the penalty as the specification words it.
FloorPenalty(x, n) == Max(1, (2 * x - n) \div 2)

\* C7 (as stated): after the hint penalty, correctness, approach and
\* edge_cases are max(1, floor(x - 0.5 n)) of the raw scores, and code_quality
\* and thinking_quality are the raw values unchanged.
C7_PenaltySparesThinking ==
    calc.stage = "penalized" =>
        LET raw == calc.parsed.score[1]
            fin == calc.final[1]
        IN  /\ fin.correctness = FloorPenalty(raw.correctness, calc.n)
            /\ fin.approach = FloorPenalty(raw.approach, calc.n)
            /\ fin.edge_cases = FloorPenalty(raw.edge_cases, calc.n)
            /\ fin.code_quality = raw.code_quality
            /\ fin.thinking_quality = raw.thinking_quality

\* C7 (amended): after the hint penalty, correctness, approach, edge_cases and
\* thinking_quality are max(1, floor(x - 0.5 n)) of the raw scores, for every
\* raw score in 1..10 and every hint count n; only code_quality is unchanged.
C7_PenaltyOnFourDimensions ==
    calc.stage = "penalized" =>
        LET raw == calc.parsed.score[1]
            fin == calc.final[1]
        IN  /\ raw.correctness \in 1..10 /\ raw.thinking_quality \in 1..10
            /\ fin.correctness = FloorPenalty(raw.correctness, calc.n)
            /\ fin.approach = FloorPenalty(raw.approach, calc.n)
            /\ fin.edge_cases = FloorPenalty(raw.edge_cases, calc.n)
            /\ fin.thinking_quality = FloorPenalty(raw.thinking_quality, calc.n)
            /\ fin.code_quality = raw.code_quality
            /\ fin.feedback = raw.feedback

\* C7 witness: three hints on raw (8,7,9,6,8): 6.5, 5.5, 4.5 are cut to 6, 5, 4.
C7_Witness ==
    /\ calc.stage = "penalized"
    /\ calc.n = 3
    /\ calc.parsed.score = Some(ReviewScore(8, 7, 9, 6, 8, "feedback"))
    /\ calc.final = Some(ReviewScore(6, 5, 9, 4, 6, "feedback"))

\* C8: automatic review of a record with hints_used = [0,1] whose oracle
\* replies (8,7,9,6,8) stores correctness 7, approach 6, code_quality 9,
\* edge_cases 5 and thinking_quality 7, whose average is 6.8 (68 tenths).
C8_TwoHintsScenario ==
    [][ (/\ review_rejection = ""
         /\ loaded.hints_used = <<0, 1>>
         /\ disk'.kind = "ok"
         /\ review_challenge(FALSE, TRUE, Reply(<<C8Block>>))) =>
            /\ disk'.data.status = REVIEWED
            /\ disk'.data.review = Some(ReviewScore(7, 6, 9, 5, 7, "feedback"))
            /\ average(disk'.data.review[1]) = 68 ]_vars

\* C8 witness: the reviewed record of the scenario.
C8_Witness ==
    /\ loads
    /\ loaded.status = REVIEWED
    /\ loaded.hints_used = <<0, 1>>
    /\ loaded.review = Some(ReviewScore(7, 6, 9, 5, 7, "feedback"))
    /\ average(loaded.review[1]) = 68

\* The JSON types that are not numbers.
NotANumber == {"text", "digits", "null", "bool", "list", "object"}
\* The values int() refuses with TypeError or ValueError.
NotConvertible == {"text", "null", "list", "object", "nan"}

\* C9 (as stated): for every integer and every non-numeric input, _clamp
\* returns an integer in [1,10], clamping twice equals clamping once, and every
\* non-numeric input maps to 5.
C9_NonNumericIsFive ==
    (calc.stage = "clamped" /\ calc.value.tag \in NotANumber \cup {"int"}) =>
        /\ ~calc.raised
        /\ calc.clamped \in 1..10
        /\ calc.twice = calc.clamped
        /\ (calc.value.tag \in NotANumber => calc.clamped = 5)

\* C9 (amended): for every integer and every non-numeric input, _clamp returns
\* an integer in [1,10] and clamping twice equals clamping once; the inputs
\* int() cannot convert (null, a list, an object, a string that spells no
\* integer) map to 5, while true, false and a string spelling an integer are
\* converted (1, 0, the integer) and clamped to the nearest bound like integers.
C9_ClampTotalIdempotent ==
    (calc.stage = "clamped" /\ calc.value.tag \in NotANumber \cup {"int"}) =>
        /\ ~calc.raised
        /\ calc.clamped \in 1..10
        /\ calc.twice = calc.clamped
        /\ (calc.value.tag \in NotConvertible => calc.clamped = 5)
        /\ (calc.value.tag \in {"int", "bool", "digits"} =>
                calc.clamped = Max(1, Min(10, calc.value.v)))

\* C9 witness: null was clamped to 5, and clamped again.
C9_Witness ==
    /\ calc.stage = "clamped"
    /\ calc.value = JNull
    /\ calc.clamped = 5
    /\ calc.twice = 5

\* C10 (as stated): parsing stores a dimension whose value is an integer outside
\* [1,10] as 5, and a value inside [1,10] unchanged.
C10_OutOfRangeIsMidpoint ==
    (/\ calc.stage = "parsed"
     /\ ~calc.missing
     /\ calc.value.tag = "int"
     /\ calc.parsed.score # None) =>
        calc.parsed.score[1][calc.field] =
            IF calc.value.v \in 1..10 THEN calc.value.v ELSE 5

\* C10 (amended): parsing stores a dimension whose value is an integer outside
\* [1,10] as the nearest bound (1 below the range, 10 above it), and a value
\* inside [1,10] unchanged.
C10_OutOfRangeIsNearestBound ==
    (/\ calc.stage = "parsed"
     /\ ~calc.missing
     /\ calc.value.tag = "int") =>
        /\ calc.parsed.score # None
        /\ calc.parsed.score[1][calc.field] =
              IF calc.value.v < 1 THEN 1
              ELSE IF calc.value.v > 10 THEN 10
              ELSE calc.value.v

\* C10 witness: approach 11 was parsed and stored as 10.
C10_Witness ==
    /\ calc.stage = "parsed"
    /\ ~calc.missing
    /\ calc.field = "approach"
    /\ calc.value = JInt(11)
    /\ calc.parsed.score # None
    /\ calc.parsed.score[1].approach = 10

\* C21: when an Automatic review has stored its score, a level-up is signalled
\* exactly when the level derived from the collection read after the save is
\* strictly greater than the level derived from the collection read before
\* it, and what is signalled is the new level; an equal or lower level
\* signals nothing.
C21_LevelUpExactlyOnHigherTier ==
    calc.stage = "reviewed" =>
        LET old_level == calculate_level(calc.stats, calc.compensated)
            new_level == calculate_level(calc.new_stats, calc.compensated)
        IN  /\ (calc.level_up # None) <=> (new_level.level > old_level.level)
            /\ calc.level_up # None => calc.level_up = Some(new_level)

\* A review that lifts the level, one that leaves it and one that lowers it.
C21_Witness ==
    /\ calc.stage = "reviewed"
    /\ calc.level_up # None
    /\ calc.level_up[1].level = 2

C21_WitnessLower ==
    /\ calc.stage = "reviewed"
    /\ calc.level_up = None
    /\ calculate_level(calc.new_stats, calc.compensated).level
         < calculate_level(calc.stats, calc.compensated).level

\* C22: the hints_used of a record are exactly the indices 0, 1, ..., h-1 in
\* this order, with h at most the number of hints of the challenge; a hint
\* that is given appends the index h to the record and changes nothing else
\* of it; with every hint used the request is rejected (and a rejected
\* request writes nothing).
C22_HintsUsedInOrder ==
    [][ /\ loads => /\ Len(loaded.hints_used) <= MaxHints
                    /\ \A i \in 1..Len(loaded.hints_used) :
                          loaded.hints_used[i] = i - 1
        /\ disk'.kind = "ok" =>
               /\ Len(disk'.data.hints_used) <= MaxHints
               /\ \A i \in 1..Len(disk'.data.hints_used) :
                     disk'.data.hints_used[i] = i - 1
        /\ (loads /\ Len(loaded.hints_used) = MaxHints) =>
               hint_rejection \in {"not in progress", "no hints remaining"}
        /\ (loads /\ loaded.status = IN_PROGRESS
               /\ Len(loaded.hints_used) = MaxHints) =>
               hint_rejection = "no hints remaining"
        /\ (pc = "idle" /\ loads /\ disk'.kind = "ok" /\ disk' # disk
               /\ show_hint) =>
               /\ hint_rejection = ""
               /\ disk'.data = [loaded EXCEPT !.hints_used =
                                   Append(@, Len(loaded.hints_used))]
      ]_vars

\* The second hint has just been given, and no further one can be.
C22_Witness ==
    /\ loads
    /\ loaded.status = IN_PROGRESS
    /\ loaded.hints_used = <<0, 1>>
    /\ hint_rejection = "no hints remaining"

\* The challenges of the catalog whose record exists, loads and is Submitted
\* or Reviewed.
Completed(files) ==
    { i \in DOMAIN files :
        /\ files[i].kind = "ok"
        /\ files[i].data.status \in {SUBMITTED, REVIEWED} }

\* C23: collect_stats returns exactly one entry for each challenge of the
\* catalog whose record exists, loads and is Submitted or Reviewed, and none
\* for any other; an entry carries the five scores and an average exactly
\* when the record has a review, the scores are the stored ones and the
\* average is their arithmetic mean.
C23_CollectOneEntryPerCompleted ==
    calc.stage = "collected" =>
        /\ Len(calc.stats) = Cardinality(Completed(calc.files))
        /\ \A i \in Completed(calc.files) :
              \E k \in DOMAIN calc.stats : calc.stats[k].id = load_all_challenges[i]
        /\ \A k \in DOMAIN calc.stats :
              \E i \in Completed(calc.files) :
                 LET entry  == calc.stats[k]
                     record == calc.files[i].data
                 IN  /\ entry.id = load_all_challenges[i]
                     /\ entry.status = record.status
                     /\ (entry.review # None) <=> (record.review # None)
                     /\ (entry.average_score # None) <=> (record.review # None)
                     /\ record.review # None =>
                           /\ entry.review = record.review
                           /\ 5 * entry.average_score[1] =
                                 10 * ( record.review[1].correctness
                                      + record.review[1].approach
                                      + record.review[1].code_quality
                                      + record.review[1].edge_cases
                                      + record.review[1].thinking_quality )

\* A record in progress is passed over, a submitted one gives an entry with
\* no score and a reviewed one an entry with its scores and the mean 7.4.
C23_Witness ==
    /\ calc.stage = "collected"
    /\ calc.files[1].kind = "ok"
    /\ calc.files[1].data.status = IN_PROGRESS
    /\ Len(calc.stats) = 2
    /\ calc.stats[1].status = SUBMITTED
    /\ calc.stats[1].average_score = None
    /\ calc.stats[2].average_score = Some(74)

\* C24: a record Session.load raises on is passed over by collect_stats: the
\* entries of the other challenges are returned all the same, and the
\* collection leaves every file, the corrupt one included, as it was.
C24_CorruptRecordSkipped ==
    [][ (calc.stage = "files" /\ calc_collect
           /\ \E i \in DOMAIN calc.files : calc.files[i].kind = "corrupt") =>
          /\ calc'.stage = "collected"
          /\ calc'.files = calc.files
          /\ \A i \in Completed(calc.files) :
                \E k \in DOMAIN calc'.stats :
                   calc'.stats[k].id = load_all_challenges[i]
          /\ \A k \in DOMAIN calc'.stats :
                \E i \in Completed(calc.files) :
                   calc'.stats[k].id = load_all_challenges[i]
      ]_vars

\* The first record is corrupt and the two others are collected.
C24_Witness ==
    /\ calc.stage = "collected"
    /\ calc.files[1].kind = "corrupt"
    /\ Len(calc.stats) = 2
    /\ calc.stats[1].id = "ch2"
    /\ calc.stats[2].id = "ch3"

\* C25: with a corrupt record on disk, start, hint, submit, compare, review
\* and the manual score entry each stop with the error of the failed load,
\* and none of them changes the record, the working tree, the journal, the
\* submission artifact or the review bundle: the corrupt record is not
\* replaced by a fresh or defaulted one.
C25_CorruptRecordFailsCommands ==
    [][ (disk.kind = "corrupt" /\ pc = "idle") =>
          /\ start_rejection = "error"
          /\ hint_rejection = "error"
          /\ submit_rejection = "error"
          /\ compare_rejection = "error"
          /\ review_rejection = "error"
          /\ score_rejection = "error"
          /\ ( \/ \E git_fails \in BOOLEAN : setup_workspace(git_fails)
               \/ show_hint
               \/ submit_challenge
               \/ \E fetched \in BOOLEAN : compare_solutions(fetched)
               \/ \E export, api \in BOOLEAN, reply \in OracleReplies :
                     review_challenge(export, api, reply)
               \/ \E scores \in ManualScores : save_manual_review(scores, "") )
               => UNCHANGED <<disk, repo, journal, artifact, bundle>>
          /\ disk' # disk => disk' = Absent
      ]_vars

\* A save was cut short: the record is corrupt, with work in the tree.
C25_Witness ==
    /\ disk.kind = "corrupt"
    /\ pc = "idle"
    /\ repo # {}
    /\ journal

\* C26: what a record holds is discarded by reset alone: no other step takes
\* a record away, and from one loadable record to the next the start time,
\* the end time, the hints used, the test result and the review, once there,
\* stay (a start on a Submitted or Reviewed record included).
C26_RecordDiscardedOnlyByReset ==
    [][ /\ (exists /\ disk'.kind = "absent") => reset(TRUE)
        /\ (loads /\ disk'.kind = "ok") =>
              /\ disk'.data.start_time = disk.data.start_time
              /\ disk.data.end_time # None =>
                    disk'.data.end_time = disk.data.end_time
              /\ Len(disk'.data.hints_used) >= Len(disk.data.hints_used)
              /\ disk.data.test_passed # None =>
                    disk'.data.test_passed = disk.data.test_passed
              /\ disk.data.review # None => disk'.data.review # None
      ]_vars

\* The same with the steps of start left out: every other command keeps what
\* the record holds.
C26_KeptButForStart ==
    [][ (loads /\ disk'.kind = "ok"
           /\ ~ \E git_fails \in BOOLEAN : setup_workspace(git_fails)) =>
              /\ disk'.data.start_time = disk.data.start_time
              /\ disk.data.end_time # None =>
                    disk'.data.end_time = disk.data.end_time
              /\ Len(disk'.data.hints_used) >= Len(disk.data.hints_used)
              /\ disk.data.review # None => disk'.data.review # None
      ]_vars

\* C27: a save replaces the record in one step: after a save, cut short or
\* not, the file holds the whole old record or the whole new one, so the
\* record on disk is never one a load rejects.
C27_SaveIsAtomic ==
    disk.kind # "corrupt"

\* C28 as stated: when the test command exits non-zero, times out or cannot
\* be run, submit goes on to its save and the record stored is Submitted with
\* test_passed false and a test_output that is not empty; test_passed is true
\* only for a command that ran and exited with 0.
C28_FailedTestsDescribed ==
    [][ /\ \A outcome \in TestOutcomes :
              (pc = "run tests" /\ test_command /\ submit_run_tests(outcome)) =>
                 /\ pc' = "save"
                 /\ mem'.test_passed =
                       Some(outcome.how = "exit" /\ outcome.rc = 0)
                 /\ mem'.test_passed = Some(FALSE) => mem'.test_output # ""
        /\ (pc = "save" /\ disk'.kind = "ok" /\ submit_save) =>
              /\ disk'.data.status = SUBMITTED
              /\ disk'.data.test_passed = mem.test_passed
              /\ disk'.data.test_output = mem.test_output
      ]_vars

\* C28 amended: the same, with test_output a message that is not empty for a
\* timeout and for a command that cannot be run, and the captured output of the
\* command, which may be empty, for a command that ran, whatever its exit code.
C28_FailedTestsRecorded ==
    [][ /\ \A outcome \in TestOutcomes :
              (pc = "run tests" /\ test_command /\ submit_run_tests(outcome)) =>
                 /\ pc' = "save"
                 /\ mem'.test_passed =
                       Some(outcome.how = "exit" /\ outcome.rc = 0)
                 /\ outcome.how # "exit" => mem'.test_output # ""
                 /\ outcome.how = "exit" => mem'.test_output = outcome.output
        /\ (pc = "save" /\ disk'.kind = "ok" /\ submit_save) =>
              /\ disk'.data.status = SUBMITTED
              /\ disk'.data.test_passed = mem.test_passed
              /\ disk'.data.test_output = mem.test_output
      ]_vars

\* A submission whose test command ran past the timeout.
C28_Witness ==
    /\ loads
    /\ loaded.status = SUBMITTED
    /\ loaded.test_passed = Some(FALSE)
    /\ loaded.test_output = "test timeout (120s)"

\* The five dimensions of a stored review.
Dimensions(r) ==
    <<r.correctness, r.approach, r.code_quality, r.edge_cases, r.thinking_quality>>

\* C29: in every loadable record that has a review, each of the five
\* dimensions is an integer from 1 to 10, whether the review came from the
\* oracle (clamped, then penalized for the hints used) or was entered by hand.
C29_StoredScoresInRange ==
    (loads /\ loaded.review # None) =>
        \A i \in 1..5 : Dimensions(loaded.review[1])[i] \in min_val..max_val

\* An oracle reply of 0, 11, 5, -3 and a text was stored after two hints, and
\* scores of 0, 11, 3, 100, 7 were entered by hand.
C29_Witness ==
    /\ loads
    /\ loaded.review # None
    /\ \/ /\ Len(loaded.hints_used) = 2
          /\ Dimensions(loaded.review[1]) = <<1, 9, 4, 1, 5>>
       \/ Dimensions(loaded.review[1]) = <<1, 10, 3, 10, 7>>

\* C30: no loadable record has the status NotStarted, and the first record
\* stored for a challenge is InProgress with its start_time set.
C30_NeverStoredNotStarted ==
    [][ /\ loads => loaded.status # NOT_STARTED
        /\ disk'.kind = "ok" => disk'.data.status # NOT_STARTED
        /\ (~exists /\ disk'.kind = "ok") =>
              /\ disk'.data.status = IN_PROGRESS
              /\ disk'.data.start_time = Some(now)
      ]_vars

\* The first record of the challenge, stored at clock 1.
C30_Witness ==
    /\ loads
    /\ loaded.status = IN_PROGRESS
    /\ loaded.start_time = Some(1)
    /\ loaded.hints_used = <<>>
    /\ repo = {}

\* C31: a submit that has come to its tests finishes, and with a test command
\* that never exits the record it stores is Submitted with test_passed false;
\* an Automatic review that has called the oracle finishes, and with an
\* oracle that never answers it ends in the export with the record unchanged.
C31_SubmitAndReviewComplete ==
    /\ (pc # "idle") ~> (pc = "idle")
    /\ (pc = "run tests" /\ test_command /\ calc.command.how = "timeout")
          ~> ( /\ pc = "idle"
               /\ loads => /\ loaded.status = SUBMITTED
                            /\ loaded.test_passed = Some(FALSE) )
    /\ (calc.call = "oracle" /\ calc.reply = None)
          ~> (bundle \/ ~loads \/ loaded.review # None)
    /\ (calc.call = "oracle" /\ calc.reply = None /\ calc.oracle = "never answers")
          ~> ( /\ bundle
               /\ loads
               /\ loaded.status = SUBMITTED
               /\ loaded.review = None )

\* The test command never exited, the submit was stored as failed, and the
\* review of an oracle that never answers ended in the export.
C31_Witness ==
    /\ calc.stage = "timed"
    /\ calc.command.how = "timeout"
    /\ calc.oracle = "never answers"
    /\ calc.reply = Some(ErrorReply)
    /\ bundle
    /\ loads
    /\ loaded.status = SUBMITTED
    /\ loaded.test_passed = Some(FALSE)
    /\ loaded.test_output = "test timeout (120s)"

\* C32: in every loadable record with both timestamps set, end_time is not
\* before start_time, whatever starts, submits, reviews and restarts came
\* before (the clock never goes back).
C32_EndNotBeforeStart ==
    (loads /\ loaded.start_time # None /\ loaded.end_time # None) =>
        loaded.end_time[1] >= loaded.start_time[1]

\* A session restarted at clock 1 after a first submission, and submitted again.
C32_Witness ==
    /\ loads
    /\ loaded.status = SUBMITTED
    /\ loaded.start_time = Some(1)
    /\ loaded.end_time = Some(1)

\* C33: a reply whose first brace-delimited block is no JSON and whose second
\* is a well-formed score object parses: an Automatic review given such a
\* reply stores the review, with the scores of the second block (the hint
\* penalty applied), and writes no export (a save cut short is left aside).
C33_FirstWellFormedBlock ==
    [][ (review_rejection = "" /\ disk'.kind = "ok"
           /\ review_challenge(FALSE, TRUE, Reply(<<Malformed, C8Block>>))) =>
            /\ disk'.data.status = REVIEWED
            /\ disk'.data.review =
                  Some(apply_hint_penalty(parse_review_json(<<C8Block>>).score[1],
                                          loaded))
            /\ bundle' = bundle ]_vars

\* C34: collect_stats changes no file, and two collections with no command
\* between them return the same entries, elapsed minutes included, however
\* much time went by between the two.
C34_CollectDeterministic ==
    [][ /\ calc'.files = calc.files
        /\ calc'.stage = "collected twice" => calc'.again = calc'.stats ]_vars

\* The same for catalogs all of whose collected records have their end_time.
C34_DeterministicWithEndTimes ==
    (calc.stage = "collected twice"
       /\ \A i \in Completed(calc.files) : calc.files[i].data.end_time # None)
    => calc.again = calc.stats

\* The scores _api_review returns for the replies of the oracle, and the
\* scores save_manual_review makes of what is typed.
OracleScores ==
    {api_review(reply)[1] : reply \in {x \in OracleReplies : api_review(x) # None}}
EnteredScores ==
    {ReviewScore(clamp(JInt(scores[1])), clamp(JInt(scores[2])),
                 clamp(JInt(scores[3])), clamp(JInt(scores[4])),
                 clamp(JInt(scores[5])), "") : scores \in ManualScores}

\* The records with the given status that the commands hand to Session.save
\* in the current state: by start and hint, by submit, by compare, by review.
Produced(status) ==
    (IF status = IN_PROGRESS THEN {initial_session(now)} ELSE {})
    \cup (IF status = IN_PROGRESS /\ loads
          THEN {[loaded EXCEPT !.hints_used = Append(@, next_idx(loaded))]}
          ELSE {})
    \cup (IF status = SUBMITTED THEN {submit(mem, now)} ELSE {})
    \cup (IF loads
          THEN {[loaded EXCEPT !.solution_diff = text] :
                  text \in {"solution diff", "(unavailable)"}}
          ELSE {})
    \cup (IF status = REVIEWED /\ loads
          THEN {reviewed(loaded, apply_hint_penalty(score, loaded)) :
                  score \in OracleScores}
               \cup {reviewed(loaded, score) : score \in EnteredScores}
          ELSE {})

\* The fields of a persisted record and of its review.
PersistedFields ==
    {"challenge_id", "status", "start_time", "end_time", "hints_used",
     "test_passed", "test_output", "user_diff", "solution_diff", "review", "retro"}
PersistedReviewFields ==
    {"correctness", "approach", "code_quality", "edge_cases", "thinking_quality",
     "feedback"}

C36_CompareChangesSolutionDiffOnly ==
    [][ /\ (loads /\ loaded.status \notin {SUBMITTED, REVIEWED}) =>
              compare_rejection = "must submit first"
        /\ ~exists => compare_rejection = "no session"
        /\ (pc = "idle" /\ disk' # disk /\ disk'.kind = "ok"
               /\ \E fetched \in BOOLEAN : compare_solutions(fetched)) =>
              /\ compare_rejection = ""
              /\ loaded.status \in {SUBMITTED, REVIEWED}
              /\ disk'.data.solution_diff # disk.data.solution_diff
              /\ disk'.data = [disk.data EXCEPT
                                 !.solution_diff = disk'.data.solution_diff]
      ]_vars

\* A submitted record holding the solution diff of a compare, and a reviewed
\* one holding the note that the diff could not be fetched.
C36_Witness ==
    /\ loads
    /\ \/ loaded.status = SUBMITTED /\ loaded.solution_diff = "solution diff"
       \/ loaded.status = REVIEWED /\ loaded.solution_diff = "(unavailable)"

\* C37: once the record is Submitted or Reviewed every hint request is
\* rejected, and from then on hints_used is the same in every later loadable
\* record until a reset, so a later review is penalized for the hints taken
\* before the submit.
C37_HintsFrozenAfterSubmit ==
    [][ (loads /\ loaded.status \in {SUBMITTED, REVIEWED}) =>
          /\ hint_rejection = "not in progress"
          /\ disk'.kind = "ok" => disk'.data.hints_used = disk.data.hints_used
      ]_vars

\* The same with the steps of start left out.
C37_FrozenButForStart ==
    [][ (loads /\ loaded.status \in {SUBMITTED, REVIEWED}
           /\ ~ \E git_fails \in BOOLEAN : setup_workspace(git_fails)) =>
          /\ hint_rejection = "not in progress"
          /\ disk'.kind = "ok" => disk'.data.hints_used = disk.data.hints_used
      ]_vars

\* C38: start on a record that is InProgress stops at "already in progress":
\* the record is left as it is (start_time and hints_used included) and the
\* working tree and the journal are not set up again.
C38_StartIdempotentInProgress ==
    [][ (loads /\ loaded.status = IN_PROGRESS /\ pc = "idle") =>
          /\ start_rejection = "already in progress"
          /\ (\E git_fails \in BOOLEAN : setup_workspace(git_fails)) =>
                UNCHANGED <<disk, repo, journal, artifact, bundle>>
          /\ (disk'.kind = "ok" /\ disk'.data.status = IN_PROGRESS) =>
                /\ disk'.data.start_time = disk.data.start_time
                /\ Len(disk'.data.hints_used) >= Len(disk.data.hints_used)
      ]_vars

\* A session started at 0 with a hint taken, work in the tree and a journal,
\* at clock 1.
C38_Witness ==
    /\ loads
    /\ loaded.status = IN_PROGRESS
    /\ loaded.start_time = Some(0)
    /\ loaded.hints_used = <<0>>
    /\ repo # {}
    /\ journal
    /\ now = 1
    /\ pc = "idle"

\* Challenge i of the catalog is completed: its record loads and is Submitted
\* or Reviewed.
IsCompleted(i) ==
    /\ calc.files[i].kind = "ok"
    /\ calc.files[i].data.status \in {SUBMITTED, REVIEWED}

\* C39 as stated: with a difficulty asked for, the challenge picked, if any,
\* is of that difficulty and is not completed.
C39_PickedHasDifficulty ==
    (calc.stage = "picked" /\ calc.picked # None) =>
        /\ calc.difficulties[calc.picked[1]] = calc.difficulty
        /\ ~IsCompleted(calc.picked[1])

\* C39 amended: the challenge picked, if any, is not completed; it is of the
\* difficulty asked for whenever the catalog has a challenge of that difficulty
\* that is not completed, and is of any difficulty otherwise; nothing is picked
\* exactly when every challenge of the catalog is completed.
C39_PickedIncomplete ==
    calc.stage = "picked" =>
        /\ calc.picked # None =>
              /\ ~IsCompleted(calc.picked[1])
              /\ \/ calc.difficulties[calc.picked[1]] = calc.difficulty
                 \/ \A i \in DOMAIN calc.files :
                       calc.difficulties[i] = calc.difficulty => IsCompleted(i)
        /\ calc.picked = None <=> \A i \in DOMAIN calc.files : IsCompleted(i)

\* The only easy challenge is submitted and a hard one, not started, is picked
\* for the difficulty easy.
C39_Witness ==
    /\ calc.stage = "picked"
    /\ calc.difficulty = "easy"
    /\ calc.difficulties = <<"easy", "hard", "medium">>
    /\ IsCompleted(1)
    /\ calc.picked = Some(2)

=============================================================================
